---- MODULE Spec2Model ----
(***************************************************************************)
(* Model of the EBS volume snapshot cache manager of runs-on/action:       *)
(* internal/snapshot/snapshot.go (AWSSnapshotter.RestoreSnapshot and       *)
(* AWSSnapshotter.CreateSnapshot) as driven by cmd/action/main.go.         *)
(*                                                                         *)
(* Every EC2 request and every host command of the two methods is one      *)
(* step of the calling job; the EC2 side (volume and snapshot state        *)
(* machines) moves asynchronously.                                         *)
(***************************************************************************)
EXTENDS Integers, Sequences, FiniteSets, TLC

\* ------------------------------------------------------------------------
\* Bounds of the model
\* ------------------------------------------------------------------------
\* StartTime values of the snapshots that exist before any job runs
MaxInitTime == 2
\* number of saveVolumeInfo and loadVolumeInfo calls made on one instance
MaxRecordOps == 3

\* ------------------------------------------------------------------------
\* Program constants (snapshot.go, const block)
\* ------------------------------------------------------------------------
defaultVolumeSizeGiB == 40
snapshotBranchTagKey == "runs-on-snapshot-branch"
snapshotRepositoryTagKey == "runs-on-snapshot-repository"
nameTagKey == "Name"
suggestedDeviceName == "/dev/sdf"
EBSModel == "Amazon Elastic Block Store"

\* ------------------------------------------------------------------------
\* Universe of the model
\* ------------------------------------------------------------------------
Jobs == {1, 2}
\* a mount point is the sequence of its path separators and path components
DockerDir == <<"/", "var", "/", "lib", "/", "docker">>
DataDir == <<"/", "data">>
MountPoints == {DockerDir, DataDir}
InitSnapIds == {1, 2}
\* one snapshot id and one volume id per job (each job has one snapshot dir)
NewSnapId(j) == 2 + j
SnapIds == InitSnapIds \cup {NewSnapId(j) : j \in Jobs}
VolIds == Jobs
NoId == 0
\* the size of a snapshot whose VolumeSize field is nil
NilSize == 0
RootDev == "/dev/nvme0n1"
VolDev == "/dev/nvme1n1"
RepoR == "org/repo"
RepoOther == "org/other"
Version == "v1"
FeatureRef == "refs/heads/feature"
MainRef == "refs/heads/main"
CustomTag == <<"team", "ci">>
InstanceId == "i-0001"
Zone == "az-a"

VARIABLES
    snapshots,  \* EC2: snapshot id -> snapshot (state "none": does not exist)
    volumes,    \* EC2: volume id -> volume (state "none": does not exist)
    clock,      \* EC2: time of the last snapshot start
    cfg,        \* job -> SnapshotterConfig of its snapshotter and its snapshot dir
    pc,         \* job -> position in RestoreSnapshot / CreateSnapshot
    loc,        \* job -> local variables of the running method (lookupAt: the
                \* EC2 time at which the method listed the branch's snapshots)
    host,       \* job -> state of its instance: docker, mounts, VolumeInfo files
    log,        \* job -> sequence of EC2 requests and host commands issued
    res         \* job -> sequence of values returned by the two methods

vars == <<snapshots, volumes, clock, cfg, pc, loc, host, log, res>>

\* ------------------------------------------------------------------------
\* Pure helpers
\* ------------------------------------------------------------------------
Last(s) == s[Len(s)]

\* strings.ReplaceAll(mountPoint, "/", "-")
ReplaceSlashes(mp) == [i \in 1..Len(mp) |-> IF mp[i] = "/" THEN "-" ELSE mp[i]]

\* strings.Trim(s, "-"): drop every leading and trailing "-"
RECURSIVE TrimLeft(_)
TrimLeft(s) ==
    IF s # <<>> /\ Head(s) = "-" THEN TrimLeft(Tail(s)) ELSE s

RECURSIVE TrimRight(_)
TrimRight(s) ==
    IF s # <<>> /\ Last(s) = "-" THEN TrimRight(SubSeq(s, 1, Len(s) - 1)) ELSE s

TrimHyphens(s) == TrimRight(TrimLeft(s))

\* getVolumeInfoPath: /runs-on/snapshot-<sanitized mount point>.json
getVolumeInfoPath(mountPoint) ==
    <<"/runs-on/snapshot-">> \o TrimHyphens(ReplaceSlashes(mountPoint)) \o <<".json">>

\* mount points that differ from DockerDir by a hyphen for a slash, and by a
\* trailing slash
HyphenDir == <<"/", "var", "/", "lib", "-", "docker">>
SlashDir == <<"/", "var", "/", "lib", "/", "docker", "/">>
RecordMountPoints == MountPoints \cup {HyphenDir, SlashDir}

InfoPaths == {getVolumeInfoPath(m) : m \in RecordMountPoints}

\* fmt.Sprintf("%s-%s", Version, GithubRef)
getSnapshotTagValue(c) == <<c.Version, "-", c.GithubRef>>

\* fmt.Sprintf("%s-%s", Version, DefaultBranch)
getSnapshotTagValueDefaultBranch(c) == <<c.Version, "-", c.DefaultBranch>>

\* the tag filters of the snapshot lookup (the status filter is in DescribeSnapshots)
LookupFilters(c, branchValue) ==
    {<<snapshotBranchTagKey, branchValue>>,
     <<snapshotRepositoryTagKey, c.GithubRepository>>} \cup c.CustomTags

\* commonVolumeTags
VolumeTags(c) ==
    {<<snapshotBranchTagKey, getSnapshotTagValue(c)>>,
     <<snapshotRepositoryTagKey, c.GithubRepository>>,
     <<nameTagKey, "volume">>} \cup c.CustomTags

\* snapshotTags
SnapshotTags(c) ==
    {<<snapshotBranchTagKey, getSnapshotTagValue(c)>>,
     <<snapshotRepositoryTagKey, c.GithubRepository>>,
     <<nameTagKey, "snapshot">>} \cup c.CustomTags

\* ------------------------------------------------------------------------
\* EC2
\* ------------------------------------------------------------------------
NoSnapshot ==
    [state |-> "none", time |-> 0, size |-> NilSize, tags |-> {},
     vol |-> NoId, formatted |-> FALSE]

NoVolume ==
    [state |-> "none", snap |-> NoId, size |-> 0, tags |-> {},
     formatted |-> FALSE, instance |-> NoId]

\* ids of a set in ascending order: the order in which EC2 lists them
RECURSIVE IdsInOrder(_)
IdsInOrder(S) ==
    IF S = {} THEN <<>>
    ELSE LET m == CHOOSE x \in S : \A y \in S : x <= y
         IN <<m>> \o IdsInOrder(S \ {m})

DescribeSnapshots_AnyStatus(filters) ==
    IdsInOrder({s \in SnapIds :
        /\ snapshots[s].state # "none"
        /\ filters \subseteq snapshots[s].tags})

\* DescribeSnapshots with tag filters and status = completed
DescribeSnapshots(filters) ==
    IdsInOrder({s \in SnapIds :
        /\ snapshots[s].state = "completed"
        /\ filters \subseteq snapshots[s].tags})

\* the loop that keeps the snapshot whose StartTime is After the kept one's
RECURSIVE LatestFrom(_, _, _)
LatestFrom(list, i, latest) ==
    IF i > Len(list) THEN latest
    ELSE LatestFrom(list, i + 1,
            IF snapshots[list[i]].time > snapshots[latest].time
            THEN list[i] ELSE latest)

LatestSnapshot_First(list) == list[1]

LatestSnapshot_Last(list) == list[Len(list)]

LatestSnapshot(list) == LatestFrom(list, 1, list[1])

UseSnapshot_NoSizeTest(latest) == latest # NoId

\* the size test that decides between a clone and a blank volume
UseSnapshot(latest) ==
    /\ latest # NoId
    /\ snapshots[latest].size # NilSize
    /\ snapshots[latest].size >= defaultVolumeSizeGiB

\* EC2 deletes a volume only when it is available
DeleteVolumeResult(v, apiOk) ==
    IF apiOk /\ volumes[v].state = "available"
    THEN [volumes EXCEPT ![v].state = "deleted"]
    ELSE volumes

\* asynchronous progress of a volume: created, attached, detached
CloudVolumeProgress(v) ==
    /\ volumes[v].state \in {"creating", "attaching", "detaching"}
    /\ volumes' = [volumes EXCEPT
           ![v].state = CASE volumes[v].state = "creating" -> "available"
                          [] volumes[v].state = "attaching" -> "attached"
                          [] volumes[v].state = "detaching" -> "available",
           ![v].instance = IF volumes[v].state = "detaching" THEN NoId
                           ELSE volumes[v].instance]
    /\ UNCHANGED <<snapshots, clock, cfg, pc, loc, host, log, res>>

\* asynchronous end of a pending snapshot: completed or error
CloudSnapshotProgress(s) ==
    /\ snapshots[s].state = "pending"
    /\ \E st \in {"completed", "error"} :
           snapshots' = [snapshots EXCEPT ![s].state = st]
    /\ UNCHANGED <<volumes, clock, cfg, pc, loc, host, log, res>>

\* ------------------------------------------------------------------------
\* Jobs
\* ------------------------------------------------------------------------
NoInfo == [VolumeID |-> NoId, DeviceName |-> "", MountPoint |-> <<>>]

\* the content of a VolumeInfo file that does not exist
NoFile == <<>>

Marshal_WithoutDevice(v) ==
    <<<<"volume_id", v.VolumeID>>, <<"mount_point", v.MountPoint>>>>

\* json.MarshalIndent of a VolumeInfo: its fields under their json names
\* (attachment_id is never set and is omitted when empty)
Marshal(v) ==
    <<<<"volume_id", v.VolumeID>>, <<"device_name", v.DeviceName>>,
      <<"mount_point", v.MountPoint>>>>

\* the value of a key of a JSON object, or the zero value of the field
FieldOf(data, key, zero) ==
    IF \E i \in 1..Len(data) : data[i][1] = key
    THEN data[CHOOSE i \in 1..Len(data) : data[i][1] = key][2]
    ELSE zero

\* json.Unmarshal into a VolumeInfo
Unmarshal(data) ==
    [VolumeID |-> FieldOf(data, "volume_id", NoId),
     DeviceName |-> FieldOf(data, "device_name", ""),
     MountPoint |-> FieldOf(data, "mount_point", <<>>)]

InitLoc ==
    [err |-> "nil", newVolume |-> NoId, volumeIsNewAndUnformatted |-> FALSE,
     latestSnapshot |-> NoId, actualDeviceName |-> "",
     deferred |-> FALSE, retOk |-> FALSE, retErr |-> "nil", lookupAt |-> 0,
     volumeInfo |-> NoInfo, newSnapshotID |-> NoId]

InitHost ==
    [docker |-> "running",
     mounts |-> [m \in MountPoints |-> ""],
     files |-> [p \in InfoPaths |-> NoFile]]

Event(in, op, arg) == [in |-> in, op |-> op, arg |-> arg]

Emit(j, in, op, arg) == [log EXCEPT ![j] = Append(@, Event(in, op, arg))]

mountPoint(j) == cfg[j].dir

VolumeOf_Shared(j) == 1

\* the id EC2 gives to the volume that job j creates
VolumeOf(j) == j

\* the jobs whose EC2 requests, waits and host commands may fail; the
\* environment of the other job never fails
Flaky == {1}

Outcomes(j) == IF j \in Flaky THEN BOOLEAN ELSE {TRUE}

WaitTimesOut_Never(j) == FALSE

\* a waiter gives up after its maximum wait time when the awaited state is not
\* reached (in the never-failing environment the state is reached in time)
WaitTimesOut(j) == j \in Flaky

NewAWSSnapshotter_NoValidation(c) == [ok |-> TRUE, err |-> "nil", config |-> c]

\* NewAWSSnapshotter: the required fields, then the defaults (CustomTags is a
\* set here, so nil and empty are the same value)
NewAWSSnapshotter(c) ==
    IF c.InstanceID = "" THEN [ok |-> FALSE, err |-> "instanceID", config |-> c]
    ELSE IF c.Az = "" THEN [ok |-> FALSE, err |-> "az", config |-> c]
    ELSE IF c.GithubRepository = ""
    THEN [ok |-> FALSE, err |-> "githubRepository", config |-> c]
    ELSE IF c.GithubRef = "" THEN [ok |-> FALSE, err |-> "githubRef", config |-> c]
    ELSE [ok |-> TRUE, err |-> "nil",
          config |-> [c EXCEPT !.Version = IF @ = "" THEN "v1" ELSE @]]

\* handleMainExecution: build the snapshotter; without one the restore is skipped
M_NewSnapshotter(j) ==
    /\ pc[j] = "m_new"
    /\ LET r == NewAWSSnapshotter(cfg[j])
       IN IF r.ok
          THEN /\ cfg' = [cfg EXCEPT ![j] = r.config]
               /\ pc' = [pc EXCEPT ![j] = "r_describe"]
          ELSE /\ cfg' = cfg
               /\ pc' = [pc EXCEPT ![j] = "p_new"]
    /\ UNCHANGED <<snapshots, volumes, clock, loc, host, log, res>>

\* a return statement of RestoreSnapshot: the returned error is a value of its own,
\* the function-scope variable err is left as it is
RestoreReturns(j, ok, e) ==
    /\ pc' = [pc EXCEPT ![j] = "r_return"]
    /\ loc' = [loc EXCEPT ![j].retOk = ok, ![j].retErr = e]

\* ------------------------------------------------------------------------
\* RestoreSnapshot
\* ------------------------------------------------------------------------
\* 1. DescribeSnapshots for the branch (assigns the function-scope err)
R_DescribeSnapshots(j) ==
    /\ pc[j] = "r_describe"
    /\ \E apiOk \in Outcomes(j) :
        LET list == DescribeSnapshots(LookupFilters(cfg[j], getSnapshotTagValue(cfg[j])))
        IN  IF ~apiOk
            THEN /\ pc' = [pc EXCEPT ![j] = "r_return"]
                 /\ loc' = [loc EXCEPT ![j].err = "describe",
                                       ![j].retOk = FALSE, ![j].retErr = "describe"]
            ELSE IF Len(list) > 0
            THEN /\ pc' = [pc EXCEPT ![j] = "r_create"]
                 /\ loc' = [loc EXCEPT ![j].latestSnapshot = LatestSnapshot(list),
                                       ![j].lookupAt = clock]
            ELSE IF cfg[j].DefaultBranch # ""
            THEN /\ pc' = [pc EXCEPT ![j] = "r_describe_default"]
                 /\ loc' = [loc EXCEPT ![j].lookupAt = clock]
            ELSE /\ pc' = [pc EXCEPT ![j] = "r_create"]
                 /\ loc' = [loc EXCEPT ![j].lookupAt = clock]
    /\ log' = Emit(j, "restore", "DescribeSnapshots", getSnapshotTagValue(cfg[j]))
    /\ UNCHANGED <<snapshots, volumes, clock, cfg, host, res>>

\* DescribeSnapshots for the default branch (its err is a variable of the else-if block)
R_DescribeDefault(j) ==
    /\ pc[j] = "r_describe_default"
    /\ \E apiOk \in Outcomes(j) :
        LET list == DescribeSnapshots(
                        LookupFilters(cfg[j], getSnapshotTagValueDefaultBranch(cfg[j])))
        IN  IF ~apiOk
            THEN RestoreReturns(j, FALSE, "describe_default")
            ELSE /\ pc' = [pc EXCEPT ![j] = "r_create"]
                 /\ loc' = [loc EXCEPT ![j].latestSnapshot =
                                IF Len(list) > 0 THEN LatestSnapshot(list) ELSE NoId]
    /\ log' = Emit(j, "restore", "DescribeSnapshots",
                   getSnapshotTagValueDefaultBranch(cfg[j]))
    /\ UNCHANGED <<snapshots, volumes, clock, cfg, host, res>>

\* 2./3. CreateVolume from the snapshot or blank; registers the deferred cleanup
R_CreateVolume(j) ==
    /\ pc[j] = "r_create"
    /\ LET latest == loc[j].latestSnapshot
           clone == UseSnapshot(latest)
           v == VolumeOf(j)
       IN \E apiOk \in Outcomes(j) :
            IF ~apiOk
            THEN /\ RestoreReturns(j, FALSE, "create_volume")
                 /\ volumes' = volumes
                 /\ log' = log
            ELSE /\ volumes' = [volumes EXCEPT ![v] =
                        [state |-> "creating",
                         snap |-> IF clone THEN latest ELSE NoId,
                         size |-> IF clone THEN snapshots[latest].size
                                  ELSE defaultVolumeSizeGiB,
                         tags |-> VolumeTags(cfg[j]),
                         formatted |-> IF clone THEN snapshots[latest].formatted
                                       ELSE FALSE,
                         instance |-> NoId]]
                 /\ loc' = [loc EXCEPT ![j].newVolume = v,
                                       ![j].volumeIsNewAndUnformatted = ~clone,
                                       ![j].deferred = TRUE]
                 /\ pc' = [pc EXCEPT ![j] = "r_wait_available"]
                 /\ log' = Emit(j, "restore", "CreateVolume",
                                IF clone THEN latest ELSE NoId)
    /\ UNCHANGED <<snapshots, clock, cfg, host, res>>

\* 4. VolumeAvailableWaiter (its err is a variable of the if statement)
R_WaitAvailable(j) ==
    /\ pc[j] = "r_wait_available"
    /\ IF volumes[loc[j].newVolume].state = "available"
       THEN /\ pc' = [pc EXCEPT ![j] = "r_attach"]
            /\ loc' = loc
       ELSE /\ WaitTimesOut(j)
            /\ RestoreReturns(j, FALSE, "wait_available")
    /\ UNCHANGED <<snapshots, volumes, clock, cfg, host, log, res>>

\* 5. AttachVolume (assigns the function-scope err)
R_AttachVolume(j) ==
    /\ pc[j] = "r_attach"
    /\ LET v == loc[j].newVolume
       IN \E apiOk \in Outcomes(j) :
            IF apiOk /\ volumes[v].state = "available"
            THEN /\ volumes' = [volumes EXCEPT ![v].state = "attaching",
                                               ![v].instance = j]
                 /\ loc' = [loc EXCEPT ![j].err = "nil",
                                       ![j].actualDeviceName = suggestedDeviceName]
                 /\ pc' = [pc EXCEPT ![j] = "r_wait_attached"]
            ELSE /\ volumes' = volumes
                 /\ pc' = [pc EXCEPT ![j] = "r_return"]
                 /\ loc' = [loc EXCEPT ![j].err = "attach",
                                       ![j].retOk = FALSE, ![j].retErr = "attach"]
    /\ log' = Emit(j, "restore", "AttachVolume", loc[j].newVolume)
    /\ UNCHANGED <<snapshots, clock, cfg, host, res>>

\* VolumeInUseWaiter with attachment.status = attached (assigns the function-scope err)
R_WaitAttached(j) ==
    /\ pc[j] = "r_wait_attached"
    /\ IF volumes[loc[j].newVolume].state = "attached"
       THEN /\ pc' = [pc EXCEPT ![j] = "r_requery"]
            /\ loc' = [loc EXCEPT ![j].err = "nil"]
       ELSE /\ WaitTimesOut(j)
            /\ pc' = [pc EXCEPT ![j] = "r_return"]
            /\ loc' = [loc EXCEPT ![j].err = "wait_attached",
                                  ![j].retOk = FALSE, ![j].retErr = "wait_attached"]
    /\ UNCHANGED <<snapshots, volumes, clock, cfg, host, log, res>>

\* the results of the DescribeVolumes re-query: the attached volume, an error,
\* an empty list of volumes, a volume without attachment
RequeryOutcomes(j) ==
    IF j \in Flaky THEN {"ok", "error", "no_volume", "no_attachment"} ELSE {"ok"}

\* DescribeVolumes re-query; Volumes[0] is read before the error is tested
R_Requery(j) ==
    /\ pc[j] = "r_requery"
    /\ \E outcome \in RequeryOutcomes(j) :
         CASE outcome = "ok" ->
                /\ pc' = [pc EXCEPT ![j] = "r_stop_docker"]
                /\ loc' = [loc EXCEPT ![j].actualDeviceName = suggestedDeviceName]
                /\ volumes' = volumes
           [] outcome \in {"error", "no_volume"} ->
                \* descVolOutput is nil, or Volumes is empty: Volumes[0] panics
                /\ RestoreReturns(j, FALSE, "panic")
                /\ volumes' = volumes
           [] outcome = "no_attachment" ->
                \* the volume was detached behind the job's back
                /\ RestoreReturns(j, FALSE, "requery")
                /\ volumes' = [volumes EXCEPT ![loc[j].newVolume].state = "available",
                                              ![loc[j].newVolume].instance = NoId]
    /\ log' = Emit(j, "restore", "DescribeVolumes", loc[j].newVolume)
    /\ UNCHANGED <<snapshots, clock, cfg, host, res>>

\* the outcomes of `lsblk -d -n -o PATH,MODEL`: its lines, or a failure without output
LsblkLine(path, model) == [path |-> path, model |-> model]

LsblkResults(j) ==
    {[ok |-> TRUE,  lines |-> <<LsblkLine(RootDev, EBSModel), LsblkLine(VolDev, EBSModel)>>]}
    \cup IF j \notin Flaky THEN {} ELSE
    {[ok |-> TRUE,  lines |-> <<LsblkLine(VolDev, EBSModel), LsblkLine(RootDev, EBSModel)>>],
     [ok |-> TRUE,  lines |-> <<LsblkLine(RootDev, EBSModel)>>],
     [ok |-> FALSE, lines |-> <<>>]}

\* the loop over the lsblk lines: the last line whose model is EBS wins
RECURSIVE ResolveDevice(_, _, _)
ResolveDevice(lines, i, dev) ==
    IF i > Len(lines) THEN dev
    ELSE ResolveDevice(lines, i + 1,
            IF lines[i].model = EBSModel THEN lines[i].path ELSE dev)

\* whether the device holds a filesystem: the root device does, the attached
\* volume does once formatted (or when cloned from a formatted snapshot)
DeviceHasFilesystem(j, dev) ==
    IF dev = RootDev THEN TRUE ELSE volumes[loc[j].newVolume].formatted

R_StopDocker_Fatal(j) ==
    /\ pc[j] = "r_stop_docker"
    /\ \E cmdOk \in Outcomes(j) :
         IF cmdOk
         THEN /\ host' = [host EXCEPT ![j].docker = "stopped"]
              /\ pc' = [pc EXCEPT ![j] = "r_umount"]
              /\ loc' = loc
         ELSE /\ host' = host
              /\ RestoreReturns(j, FALSE, "docker_stop")
    /\ log' = Emit(j, "restore", "docker_stop", "")
    /\ UNCHANGED <<snapshots, volumes, clock, cfg, res>>

\* 6. systemctl stop docker (failure only warned; err is local to the if)
R_StopDocker(j) ==
    /\ pc[j] = "r_stop_docker"
    /\ \E cmdOk \in Outcomes(j) :
         host' = [host EXCEPT ![j].docker = IF cmdOk THEN "stopped" ELSE @]
    /\ pc' = [pc EXCEPT ![j] = "r_umount"]
    /\ log' = Emit(j, "restore", "docker_stop", "")
    /\ UNCHANGED <<snapshots, volumes, clock, cfg, loc, res>>

\* defensive umount of the mount point (failure only warned)
R_Umount(j) ==
    /\ pc[j] = "r_umount"
    /\ \E cmdOk \in Outcomes(j) :
         host' = [host EXCEPT ![j].mounts[mountPoint(j)] =
                     IF cmdOk /\ @ # "" THEN "" ELSE @]
    /\ pc' = [pc EXCEPT ![j] = "r_lsblk"]
    /\ log' = Emit(j, "restore", "umount", mountPoint(j))
    /\ UNCHANGED <<snapshots, volumes, clock, cfg, loc, res>>

\* lsblk (assigns the function-scope err; failure only warned)
R_Lsblk(j) ==
    /\ pc[j] = "r_lsblk"
    /\ \E r \in LsblkResults(j) :
         loc' = [loc EXCEPT
                    ![j].err = IF r.ok THEN "nil" ELSE "lsblk",
                    ![j].actualDeviceName = ResolveDevice(r.lines, 1, @)]
    /\ pc' = [pc EXCEPT ![j] = "r_save"]
    /\ log' = Emit(j, "restore", "lsblk", "")
    /\ UNCHANGED <<snapshots, volumes, clock, cfg, host, res>>

\* saveVolumeInfo: writes the record to the file of the mount point
saveVolumeInfo(files, volumeInfo) ==
    [files EXCEPT ![getVolumeInfoPath(volumeInfo.MountPoint)] = Marshal(volumeInfo)]

NeedsFormat_Always(l) == TRUE

\* the test that guards the format command
NeedsFormat(l) == l.volumeIsNewAndUnformatted

\* save the VolumeInfo record (failure only warned)
R_SaveVolumeInfo(j) ==
    /\ pc[j] = "r_save"
    /\ \E writeOk \in Outcomes(j) :
         IF writeOk
         THEN /\ host' = [host EXCEPT ![j].files = saveVolumeInfo(@,
                            [VolumeID |-> loc[j].newVolume,
                             DeviceName |-> loc[j].actualDeviceName,
                             MountPoint |-> mountPoint(j)])]
              /\ log' = Emit(j, "restore", "saveVolumeInfo", mountPoint(j))
         ELSE /\ host' = host
              /\ log' = log
    /\ pc' = [pc EXCEPT ![j] =
                 IF NeedsFormat(loc[j]) THEN "r_mkfs" ELSE "r_mkdir"]
    /\ UNCHANGED <<snapshots, volumes, clock, cfg, loc, res>>

\* mkfs.ext4 -F on the resolved device, for a blank volume only
R_Format(j) ==
    /\ pc[j] = "r_mkfs"
    /\ LET dev == loc[j].actualDeviceName
       IN \E cmdOk \in Outcomes(j) :
            IF cmdOk /\ dev # RootDev
            THEN /\ volumes' = [volumes EXCEPT ![loc[j].newVolume].formatted = TRUE]
                 /\ pc' = [pc EXCEPT ![j] = "r_mkdir"]
                 /\ loc' = loc
            ELSE /\ volumes' = volumes
                 /\ RestoreReturns(j, FALSE, "mkfs")
    /\ log' = Emit(j, "restore", "mkfs", loc[j].actualDeviceName)
    /\ UNCHANGED <<snapshots, clock, cfg, host, res>>

\* mkdir -p of the mount point
R_Mkdir(j) ==
    /\ pc[j] = "r_mkdir"
    /\ \E cmdOk \in Outcomes(j) :
         IF cmdOk
         THEN /\ pc' = [pc EXCEPT ![j] = "r_mount"]
              /\ loc' = loc
         ELSE RestoreReturns(j, FALSE, "mkdir")
    /\ log' = Emit(j, "restore", "mkdir", mountPoint(j))
    /\ UNCHANGED <<snapshots, volumes, clock, cfg, host, res>>

\* mount of the resolved device on the mount point
R_Mount(j) ==
    /\ pc[j] = "r_mount"
    /\ LET dev == loc[j].actualDeviceName
       IN \E cmdOk \in Outcomes(j) :
            IF cmdOk /\ DeviceHasFilesystem(j, dev)
            THEN /\ host' = [host EXCEPT ![j].mounts[mountPoint(j)] = dev]
                 /\ pc' = [pc EXCEPT ![j] = "r_start_docker"]
                 /\ loc' = loc
            ELSE /\ host' = host
                 /\ RestoreReturns(j, FALSE, "mount")
    /\ log' = Emit(j, "restore", "mount", loc[j].actualDeviceName)
    /\ UNCHANGED <<snapshots, volumes, clock, cfg, res>>

\* systemctl start docker
R_StartDocker(j) ==
    /\ pc[j] = "r_start_docker"
    /\ \E cmdOk \in Outcomes(j) :
         IF cmdOk
         THEN /\ host' = [host EXCEPT ![j].docker = "running"]
              /\ pc' = [pc EXCEPT ![j] = "r_probe"]
              /\ loc' = loc
         ELSE /\ host' = host
              /\ RestoreReturns(j, FALSE, "docker_start")
    /\ log' = Emit(j, "restore", "docker_start", "")
    /\ UNCHANGED <<snapshots, volumes, clock, cfg, res>>

\* docker system df; on failure umount of "/var/lib/docker" and error
R_Probe(j) ==
    /\ pc[j] = "r_probe"
    /\ \E probeOk \in Outcomes(j) :
         IF probeOk
         THEN /\ RestoreReturns(j, TRUE, "nil")
              /\ host' = host
              /\ log' = Emit(j, "restore", "docker_system_df", "")
         ELSE /\ RestoreReturns(j, FALSE, "probe")
              /\ \E cmdOk \in Outcomes(j) :
                   host' = [host EXCEPT ![j].mounts[DockerDir] =
                               IF cmdOk /\ @ # "" THEN "" ELSE @]
              /\ log' = [log EXCEPT ![j] =
                            @ \o <<Event("restore", "docker_system_df", ""),
                                   Event("restore", "umount", DockerDir)>>]
    /\ UNCHANGED <<snapshots, volumes, clock, cfg, res>>

CleanupNeeded_Never(l) == FALSE

\* the deferred function deletes the volume when the function-scope err is set
CleanupNeeded(l) ==
    /\ l.deferred
    /\ l.err # "nil"
    /\ l.newVolume # NoId

\* the deferred cleanup, then the return to handleMainExecution
R_Return(j) ==
    /\ pc[j] = "r_return"
    /\ LET cleanup == CleanupNeeded(loc[j])
       IN /\ \E apiOk \in Outcomes(j) :
               volumes' = IF cleanup THEN DeleteVolumeResult(loc[j].newVolume, apiOk)
                          ELSE volumes
          /\ log' = IF cleanup
                    THEN Emit(j, "restore", "DeleteVolume", loc[j].newVolume)
                    ELSE log
    /\ res' = [res EXCEPT ![j] = Append(@,
                  [op |-> "RestoreSnapshot",
                   ok |-> loc[j].retOk,
                   err |-> loc[j].retErr,
                   VolumeID |-> IF loc[j].retOk THEN loc[j].newVolume ELSE NoId,
                   DeviceName |-> IF loc[j].retOk THEN loc[j].actualDeviceName ELSE "",
                   created |-> loc[j].newVolume])]
    /\ loc' = [loc EXCEPT ![j] = InitLoc]
    /\ pc' = [pc EXCEPT ![j] = "p_new"]
    /\ UNCHANGED <<snapshots, clock, cfg, host>>

\* ------------------------------------------------------------------------
\* CreateSnapshot
\* ------------------------------------------------------------------------
\* the SnapshotterConfig of the post-execution process: the package-level
\* snapshotterConfig as declared; handlePostExecution does not assign
\* DefaultBranch and CustomTags, and NewAWSSnapshotter makes nil CustomTags empty
PostConfig(c) == [c EXCEPT !.DefaultBranch = "", !.CustomTags = {}]

\* handlePostExecution: build the snapshotter; without one the snapshot is skipped
P_NewSnapshotter(j) ==
    /\ pc[j] = "p_new"
    /\ pc' = [pc EXCEPT ![j] =
                 IF NewAWSSnapshotter(PostConfig(cfg[j])).ok THEN "c_load" ELSE "done"]
    /\ UNCHANGED <<snapshots, volumes, clock, cfg, loc, host, log, res>>

\* a return statement of CreateSnapshot
CreateReturns(j, ok, e, snapshotID) ==
    /\ res' = [res EXCEPT ![j] = Append(@,
                  [op |-> "CreateSnapshot", ok |-> ok, err |-> e,
                   SnapshotID |-> snapshotID])]
    /\ pc' = [pc EXCEPT ![j] = "done"]
    /\ loc' = [loc EXCEPT ![j] = InitLoc]

loadVolumeInfo_Stale(files, mp) ==
    [VolumeID |-> 1, DeviceName |-> suggestedDeviceName, MountPoint |-> mp]

\* loadVolumeInfo: the record in the file of the mount point; NoInfo stands for
\* the error returned when the file cannot be read
loadVolumeInfo(files, mp) ==
    IF files[getVolumeInfoPath(mp)] = NoFile THEN NoInfo
    ELSE Unmarshal(files[getVolumeInfoPath(mp)])

\* load the VolumeInfo record of the mount point; fatal if absent
C_LoadVolumeInfo(j) ==
    /\ pc[j] = "c_load"
    /\ LET info == loadVolumeInfo(host[j].files, mountPoint(j))
       IN IF info = NoInfo
          THEN CreateReturns(j, FALSE, "load", NoId)
          ELSE /\ loc' = [loc EXCEPT ![j].volumeInfo = info]
               /\ pc' = [pc EXCEPT ![j] = "c_prune"]
               /\ res' = res
    /\ UNCHANGED <<snapshots, volumes, clock, cfg, host, log>>

\* docker builder prune -f (failure only warned)
C_Prune(j) ==
    /\ pc[j] = "c_prune"
    /\ pc' = [pc EXCEPT ![j] = "c_stop_docker"]
    /\ log' = Emit(j, "create", "docker_prune", "")
    /\ UNCHANGED <<snapshots, volumes, clock, cfg, loc, host, res>>

\* systemctl stop docker (failure only warned)
C_StopDocker(j) ==
    /\ pc[j] = "c_stop_docker"
    /\ \E cmdOk \in Outcomes(j) :
         host' = [host EXCEPT ![j].docker = IF cmdOk THEN "stopped" ELSE @]
    /\ pc' = [pc EXCEPT ![j] = "c_umount"]
    /\ log' = Emit(j, "create", "docker_stop", "")
    /\ UNCHANGED <<snapshots, volumes, clock, cfg, loc, res>>

\* the output of `df mountPoint`: the filesystem that holds the path and where it
\* is mounted (the mount point itself when mounted, else the root filesystem)
DfOutput(h, mp) ==
    IF h.mounts[mp] # "" THEN [fs |-> h.mounts[mp], on |-> mp]
    ELSE [fs |-> RootDev, on |-> <<"/">>]

\* the test after a failed umount: df succeeded and its output names the mount point
StillMounted(checkOk, out, mp) == checkOk /\ out.on = mp

\* umount of the mount point; on failure df decides whether it is still mounted
C_Umount(j) ==
    /\ pc[j] = "c_umount"
    /\ LET mp == mountPoint(j)
       IN \E cmdOk \in Outcomes(j) :
            IF cmdOk /\ host[j].mounts[mp] # ""
            THEN /\ host' = [host EXCEPT ![j].mounts[mp] = ""]
                 /\ pc' = [pc EXCEPT ![j] = "c_detach"]
                 /\ log' = Emit(j, "create", "umount", mp)
                 /\ UNCHANGED <<loc, res>>
            ELSE /\ host' = host
                 /\ \E checkOk \in Outcomes(j) :
                      /\ log' = [log EXCEPT ![j] =
                                    @ \o <<Event("create", "umount", mp),
                                           Event("create", "df", mp)>>]
                      /\ IF StillMounted(checkOk, DfOutput(host[j], mp), mp)
                         THEN CreateReturns(j, FALSE, "umount", NoId)
                         ELSE /\ pc' = [pc EXCEPT ![j] = "c_detach"]
                              /\ UNCHANGED <<loc, res>>
    /\ UNCHANGED <<snapshots, volumes, clock, cfg>>

\* DetachVolume of the recorded volume from this instance
C_DetachVolume(j) ==
    /\ pc[j] = "c_detach"
    /\ LET v == loc[j].volumeInfo.VolumeID
       IN \E apiOk \in Outcomes(j) :
            IF /\ apiOk
               /\ volumes[v].state \in {"attaching", "attached"}
               /\ volumes[v].instance = j
            THEN /\ volumes' = [volumes EXCEPT ![v].state = "detaching"]
                 /\ pc' = [pc EXCEPT ![j] = "c_wait_available"]
                 /\ UNCHANGED <<loc, res>>
            ELSE /\ volumes' = volumes
                 /\ CreateReturns(j, FALSE, "detach", NoId)
    /\ log' = Emit(j, "create", "DetachVolume", loc[j].volumeInfo.VolumeID)
    /\ UNCHANGED <<snapshots, clock, cfg, host>>

\* VolumeAvailableWaiter after the detach
C_WaitAvailable(j) ==
    /\ pc[j] = "c_wait_available"
    /\ IF volumes[loc[j].volumeInfo.VolumeID].state = "available"
       THEN /\ pc' = [pc EXCEPT ![j] = "c_snapshot"]
            /\ UNCHANGED <<loc, res>>
       ELSE /\ WaitTimesOut(j)
            /\ CreateReturns(j, FALSE, "wait_detached", NoId)
    /\ UNCHANGED <<snapshots, volumes, clock, cfg, host, log>>

\* 3. CreateSnapshot request; returns at once unless WaitForSnapshotCompletion
C_CreateSnapshot(j) ==
    /\ pc[j] = "c_snapshot"
    /\ LET v == loc[j].volumeInfo.VolumeID
           s == NewSnapId(j)
       IN \E apiOk \in Outcomes(j) :
            IF apiOk /\ volumes[v].state \notin {"none", "deleted"}
            THEN /\ snapshots' = [snapshots EXCEPT ![s] =
                        [state |-> "pending", time |-> clock + 1,
                         size |-> volumes[v].size,
                         tags |-> SnapshotTags(PostConfig(cfg[j])),
                         vol |-> v, formatted |-> volumes[v].formatted]]
                 /\ clock' = clock + 1
                 /\ log' = Emit(j, "create", "CreateSnapshot", v)
                 /\ IF ~PostConfig(cfg[j]).WaitForSnapshotCompletion
                    THEN CreateReturns(j, TRUE, "nil", s)
                    ELSE /\ loc' = [loc EXCEPT ![j].newSnapshotID = s]
                         /\ pc' = [pc EXCEPT ![j] = "c_wait_completed"]
                         /\ res' = res
            ELSE /\ UNCHANGED <<snapshots, clock>>
                 /\ log' = Emit(j, "create", "CreateSnapshot", v)
                 /\ CreateReturns(j, FALSE, "create_snapshot", NoId)
    /\ UNCHANGED <<volumes, cfg, host>>

SnapshotCompleted_Exists(s) == snapshots[s].state # "none"

\* the state that SnapshotCompletedWaiter waits for
SnapshotCompleted(s) == snapshots[s].state = "completed"

\* SnapshotCompletedWaiter
C_WaitCompleted(j) ==
    /\ pc[j] = "c_wait_completed"
    /\ IF SnapshotCompleted(loc[j].newSnapshotID)
       THEN /\ pc' = [pc EXCEPT ![j] = "c_delete"]
            /\ UNCHANGED <<loc, res>>
       ELSE /\ WaitTimesOut(j) \/ snapshots[loc[j].newSnapshotID].state = "error"
            /\ CreateReturns(j, FALSE, "wait_completed", NoId)
    /\ UNCHANGED <<snapshots, volumes, clock, cfg, host, log>>

\* 5. DeleteVolume of the snapshotted volume (failure only warned)
C_DeleteVolume(j) ==
    /\ pc[j] = "c_delete"
    /\ \E apiOk \in Outcomes(j) :
         volumes' = DeleteVolumeResult(loc[j].volumeInfo.VolumeID, apiOk)
    /\ log' = Emit(j, "create", "DeleteVolume", loc[j].volumeInfo.VolumeID)
    /\ CreateReturns(j, TRUE, "nil", loc[j].newSnapshotID)
    /\ UNCHANGED <<snapshots, clock, cfg, host>>

\* ------------------------------------------------------------------------
\* Specification
\* ------------------------------------------------------------------------
Locate(j) ==
    \/ R_DescribeSnapshots(j)
    \/ R_DescribeDefault(j)
    \/ R_CreateVolume(j)

Restore(j) ==
    \/ R_WaitAvailable(j)
    \/ R_AttachVolume(j)
    \/ R_WaitAttached(j)
    \/ R_Requery(j)
    \/ R_StopDocker(j)
    \/ R_Umount(j)
    \/ R_Lsblk(j)
    \/ R_SaveVolumeInfo(j)
    \/ R_Format(j)
    \/ R_Mkdir(j)
    \/ R_Mount(j)
    \/ R_StartDocker(j)
    \/ R_Probe(j)
    \/ R_Return(j)

Create(j) ==
    \/ C_LoadVolumeInfo(j)
    \/ C_Prune(j)
    \/ C_StopDocker(j)
    \/ C_Umount(j)
    \/ C_DetachVolume(j)
    \/ C_WaitAvailable(j)
    \/ C_CreateSnapshot(j)
    \/ C_WaitCompleted(j)
    \/ C_DeleteVolume(j)

Construct(j) ==
    \/ M_NewSnapshotter(j)
    \/ P_NewSnapshotter(j)

Next ==
    \/ \E j \in Jobs : Construct(j)
    \/ \E j \in Jobs : Locate(j)
    \/ \E j \in Jobs : Restore(j)
    \/ \E j \in Jobs : Create(j)
    \/ \E v \in VolIds : CloudVolumeProgress(v)
    \/ \E s \in SnapIds : CloudSnapshotProgress(s)

\* ------------------------------------------------------------------------
\* Initial states
\* ------------------------------------------------------------------------
\* the custom tags of the runner configuration: none, or one
RunnerCustomTags == {{}, {CustomTag}}

\* a valid SnapshotterConfig of the main process (NewAWSSnapshotter accepted it;
\* DefaultBranch and CustomTags come from the runner configuration) and the
\* snapshot dir
Config(ref, defaultBranch, custom, wait, dir) ==
    [Version |-> Version, GithubRef |-> ref, GithubRepository |-> RepoR,
     InstanceID |-> InstanceId, Az |-> Zone,
     DefaultBranch |-> defaultBranch, CustomTags |-> custom,
     WaitForSnapshotCompletion |-> wait, dir |-> dir]

\* tag sets of the snapshots that exist before the jobs run
TagsOf(branchValue, repo, custom) ==
    {<<snapshotBranchTagKey, branchValue>>, <<snapshotRepositoryTagKey, repo>>,
     <<nameTagKey, "snapshot">>} \cup custom

FeatureKey == <<Version, "-", FeatureRef>>
DefaultKey == <<Version, "-", MainRef>>

InitTagSets ==
    {TagsOf(FeatureKey, RepoR, {CustomTag}),
     TagsOf(DefaultKey, RepoR, {CustomTag}),
     TagsOf(DefaultKey, RepoR, {}),
     TagsOf(FeatureKey, RepoOther, {CustomTag})}

InitSnapshotKinds ==
    [state : {"completed", "pending", "error"},
     time : 1..MaxInitTime,
     size : {NilSize, defaultVolumeSizeGiB - 1, defaultVolumeSizeGiB},
     tags : InitTagSets,
     vol : {NoId},
     formatted : {TRUE}]

InitCommon ==
    /\ volumes = [v \in VolIds |-> NoVolume]
    /\ clock = MaxInitTime
    /\ loc = [j \in Jobs |-> InitLoc]
    /\ host = [j \in Jobs |-> InitHost]
    /\ log = [j \in Jobs |-> <<>>]
    /\ res = [j \in Jobs |-> <<>>]

\* the snapshot of an earlier job on the same branch or on the default branch
EarlierSnapshot(branchValue) ==
    [state |-> "completed", time |-> 1, size |-> defaultVolumeSizeGiB,
     tags |-> TagsOf(branchValue, RepoR, {CustomTag}),
     vol |-> NoId, formatted |-> TRUE]

\* two jobs on their own instances, at most one snapshot in the store
Init ==
    /\ InitCommon
    /\ \E s1 \in {NoSnapshot, EarlierSnapshot(FeatureKey), EarlierSnapshot(DefaultKey)} :
         snapshots = [s \in SnapIds |-> IF s = 1 THEN s1 ELSE NoSnapshot]
    /\ \E w1 \in BOOLEAN, dir1 \in MountPoints, ref2 \in {FeatureRef, MainRef},
          custom \in RunnerCustomTags :
         cfg = [j \in Jobs |->
                  IF j = 1 THEN Config(FeatureRef, MainRef, custom, w1, dir1)
                  ELSE Config(ref2, MainRef, custom, FALSE, DockerDir)]
    /\ pc = [j \in Jobs |-> "m_new"]

Spec == Init /\ [][Next]_vars

\* one job up to the creation of its volume, any two snapshots in the store
InitLocate ==
    /\ InitCommon
    /\ \E s1, s2 \in InitSnapshotKinds \cup {NoSnapshot} :
         snapshots = [s \in SnapIds |->
                        IF s = 1 THEN s1 ELSE IF s = 2 THEN s2 ELSE NoSnapshot]
    /\ \E d \in {"", MainRef} :
         cfg = [j \in Jobs |-> Config(FeatureRef, d, {CustomTag}, FALSE, DockerDir)]
    /\ pc = [j \in Jobs |-> IF j = 1 THEN "r_describe" ELSE "off"]

NextLocate ==
    \/ \E j \in Jobs : Locate(j)
    \/ \E s \in SnapIds : CloudSnapshotProgress(s)

SpecLocate == InitLocate /\ [][NextLocate]_vars

\* one job whose waits can time out; the job keeps taking steps, EC2 is free to
\* never bring a volume or a snapshot to the awaited state
InitWait ==
    /\ InitCommon
    /\ \E s1 \in {NoSnapshot, EarlierSnapshot(FeatureKey)} :
         snapshots = [s \in SnapIds |-> IF s = 1 THEN s1 ELSE NoSnapshot]
    /\ \E w1 \in BOOLEAN :
         cfg = [j \in Jobs |-> Config(FeatureRef, MainRef, {}, w1, DockerDir)]
    /\ pc = [j \in Jobs |-> IF j \in Flaky THEN "m_new" ELSE "off"]

JobStep(j) == Construct(j) \/ Locate(j) \/ Restore(j) \/ Create(j)

\* the VolumeInfo records that are saved
RecordInfos ==
    [VolumeID : VolIds, DeviceName : {suggestedDeviceName, VolDev},
     MountPoint : RecordMountPoints]

\* a call of saveVolumeInfo with any record
Rec_Save(j) ==
    /\ pc[j] = "rec"
    /\ Len(log[j]) < MaxRecordOps
    /\ \E v \in RecordInfos :
         /\ host' = [host EXCEPT ![j].files = saveVolumeInfo(@, v)]
         /\ log' = Emit(j, "record", "saveVolumeInfo", v)
    /\ UNCHANGED <<snapshots, volumes, clock, cfg, pc, loc, res>>

\* a call of loadVolumeInfo for any mount point; the result is kept in volumeInfo
Rec_Load(j) ==
    /\ pc[j] = "rec"
    /\ Len(log[j]) < MaxRecordOps
    /\ \E m \in RecordMountPoints :
         /\ loc' = [loc EXCEPT ![j].volumeInfo = loadVolumeInfo(host[j].files, m)]
         /\ log' = Emit(j, "record", "loadVolumeInfo", m)
    /\ UNCHANGED <<snapshots, volumes, clock, cfg, pc, host, res>>

\* the two VolumeInfo functions called in any order on one instance
InitRecord ==
    /\ InitCommon
    /\ snapshots = [s \in SnapIds |-> NoSnapshot]
    /\ cfg = [j \in Jobs |-> Config(FeatureRef, MainRef, {}, FALSE, DockerDir)]
    /\ pc = [j \in Jobs |-> IF j \in Flaky THEN "rec" ELSE "off"]

NextRecord ==
    \/ \E j \in Jobs : Rec_Save(j)
    \/ \E j \in Jobs : Rec_Load(j)

SpecRecord == InitRecord /\ [][NextRecord]_vars

\* one job whose required configuration fields may be empty
InitConfig ==
    /\ InitCommon
    /\ \E s1 \in {NoSnapshot, EarlierSnapshot(FeatureKey)} :
         snapshots = [s \in SnapIds |-> IF s = 1 THEN s1 ELSE NoSnapshot]
    /\ \E v \in {"", Version}, ref \in {"", FeatureRef}, repo \in {"", RepoR},
          inst \in {"", InstanceId}, az \in {"", Zone}, w \in BOOLEAN :
         cfg = [j \in Jobs |->
                  [Config(ref, MainRef, {}, w, DockerDir)
                      EXCEPT !.Version = v, !.GithubRepository = repo,
                             !.InstanceID = inst, !.Az = az]]
    /\ pc = [j \in Jobs |-> IF j \in Flaky THEN "m_new" ELSE "off"]

SpecConfig == InitConfig /\ [][Next]_vars

SpecWait == InitWait /\ [][Next]_vars /\ \A j \in Flaky : WF_vars(JobStep(j))

\* ------------------------------------------------------------------------
\* Properties
\* ------------------------------------------------------------------------
\* positions in the log of job j of the events of one kind
Events(j, in, op) ==
    {i \in 1..Len(log[j]) : log[j][i].in = in /\ log[j][i].op = op}

EventsOn(j, in, op, arg) ==
    {i \in Events(j, in, op) : log[j][i].arg = arg}

Restored(j) == Len(res[j]) >= 1
Finalized(j) == Len(res[j]) >= 2
RestoreResult(j) == res[j][1]
CreateResult(j) == res[j][2]

KeyTags(c) ==
    {<<snapshotBranchTagKey, getSnapshotTagValue(c)>>,
     <<snapshotRepositoryTagKey, c.GithubRepository>>} \cup c.CustomTags

\* the state the end-to-end cycle of job j must leave
EndToEndState(j) ==
    LET v == RestoreResult(j).VolumeID
        s == CreateResult(j).SnapshotID
    IN /\ volumes[v].state \notin {"attaching", "attached", "detaching"}
       /\ {x \in SnapIds : snapshots[x].vol = v} = {s}
       /\ snapshots[s].state \in {"pending", "completed"}
       /\ KeyTags(cfg[j]) \subseteq snapshots[s].tags
       /\ EventsOn(j, "create", "DeleteVolume", v) # {}

\* C1 (as claimed): when RestoreSnapshot and then CreateSnapshot both succeed, with
\* either value of WaitForSnapshotCompletion, the call returns with the volume
\* detached, exactly one new pending or completed snapshot tagged with the job's
\* cache key, and a DeleteVolume request issued for the volume.
C1_EndToEndCycle ==
    [][\A j \in Jobs :
          (/\ pc[j] # "done"
           /\ pc'[j] = "done"
           /\ RestoreResult(j)'.ok
           /\ CreateResult(j)'.ok) => EndToEndState(j)']_vars

RestoreErrorsAfterCreate ==
    {"wait_available", "attach", "wait_attached", "requery",
     "mkfs", "mkdir", "mount", "docker_start", "probe"}

\* C2 (as claimed): every error return of RestoreSnapshot after CreateVolume
\* succeeded has issued exactly one DeleteVolume request for the created volume.
C2_CleanupOnEveryError ==
    \A j \in Jobs :
       (/\ Restored(j)
        /\ ~RestoreResult(j).ok
        /\ RestoreResult(j).err \in RestoreErrorsAfterCreate)
       => Cardinality(EventsOn(j, "restore", "DeleteVolume", RestoreResult(j).created)) = 1

\* C3: mkfs is never run in a RestoreSnapshot whose volume was created from a
\* snapshot; for a blank volume every mount command is preceded by exactly one
\* mkfs, of the device that is mounted.
C3_FormatOnBlankOnly ==
    \A j \in Jobs :
       LET mk == Events(j, "restore", "mkfs")
           mt == Events(j, "restore", "mount")
           v == VolumeOf(j)
       IN /\ Cardinality(mk) <= 1
          /\ (volumes[v].state # "none" /\ volumes[v].snap # NoId) => mk = {}
          /\ (volumes[v].state # "none" /\ volumes[v].snap = NoId /\ mt # {})
                => \E i \in mk : \A m \in mt :
                       i < m /\ log[j][i].arg = log[j][m].arg

\* a blank volume was formatted and mounted, a cloned one mounted without format
C3_Witness ==
    \E j, k \in Jobs :
       /\ volumes[VolumeOf(j)].snap = NoId
       /\ Events(j, "restore", "mkfs") # {}
       /\ Events(j, "restore", "mount") # {}
       /\ volumes[VolumeOf(k)].snap # NoId
       /\ Events(k, "restore", "mount") # {}

\* C4: a volume is never cloned from a snapshot whose size is unknown or below
\* defaultVolumeSizeGiB; when the selected snapshot is such a one the volume is
\* blank, and a selected snapshot of exactly defaultVolumeSizeGiB is cloned.
C4_UndersizedNeverCloned ==
    \A j \in Jobs :
       LET v == VolumeOf(j)
           latest == loc[j].latestSnapshot
       IN /\ (volumes[v].state # "none" /\ volumes[v].snap # NoId)
                => /\ snapshots[volumes[v].snap].size # NilSize
                   /\ snapshots[volumes[v].snap].size >= defaultVolumeSizeGiB
          /\ (loc[j].newVolume # NoId /\ latest # NoId)
                => IF snapshots[latest].size = NilSize
                      \/ snapshots[latest].size < defaultVolumeSizeGiB
                   THEN volumes[v].snap = NoId
                   ELSE volumes[v].snap = latest

\* the most recent completed match is undersized and the volume was created blank
C4_Witness ==
    \E j \in Jobs :
       /\ loc[j].newVolume # NoId
       /\ loc[j].latestSnapshot # NoId
       /\ snapshots[loc[j].latestSnapshot].size = defaultVolumeSizeGiB - 1
       /\ volumes[VolumeOf(j)].snap = NoId
       /\ volumes[VolumeOf(j)].size = defaultVolumeSizeGiB

\* the completed snapshots that carry a branch tag value, the repository and the
\* custom tags of a configuration
CompletedWithKey(c, branchValue) ==
    {s \in SnapIds :
        /\ snapshots[s].state = "completed"
        /\ <<snapshotBranchTagKey, branchValue>> \in snapshots[s].tags
        /\ <<snapshotRepositoryTagKey, c.GithubRepository>> \in snapshots[s].tags
        /\ \A t \in c.CustomTags : t \in snapshots[s].tags}

OwnKey(c) == <<c.Version, "-", c.GithubRef>>
FallbackKey(c) == <<c.Version, "-", c.DefaultBranch>>

\* C5: when the lookup for the job's own key finds no completed snapshot and a
\* default branch is configured, the default-branch key is looked up, and when
\* completed snapshots match it the one selected has the latest StartTime of them.
C5_FallbackLatest ==
    [][\A j \in Jobs :
          /\ (/\ pc[j] = "r_describe"
              /\ pc'[j] \notin {"r_describe", "r_return"}
              /\ CompletedWithKey(cfg[j], OwnKey(cfg[j])) = {}
              /\ cfg[j].DefaultBranch # "")
                => pc'[j] = "r_describe_default"
          /\ (/\ pc[j] = "r_describe_default"
              /\ pc'[j] = "r_create"
              /\ CompletedWithKey(cfg[j], FallbackKey(cfg[j])) # {})
                => /\ loc'[j].latestSnapshot \in CompletedWithKey(cfg[j], FallbackKey(cfg[j]))
                   /\ \A s \in CompletedWithKey(cfg[j], FallbackKey(cfg[j])) :
                         snapshots[s].time <= snapshots[loc'[j].latestSnapshot].time]_vars

\* the fallback selected the later of two completed default-branch snapshots
C5_Witness ==
    \E j \in Jobs :
       /\ pc[j] = "r_create"
       /\ Cardinality(Events(j, "restore", "DescribeSnapshots")) = 2
       /\ \E a, b \in CompletedWithKey(cfg[j], FallbackKey(cfg[j])) :
             /\ snapshots[a].time < snapshots[b].time
             /\ a < b
             /\ loc[j].latestSnapshot = b

\* C6: the snapshot a RestoreSnapshot selected, and the snapshot a volume was
\* created from, is in state completed.
C6_OnlyCompletedSnapshots ==
    /\ \A j \in Jobs :
          loc[j].latestSnapshot # NoId
             => snapshots[loc[j].latestSnapshot].state = "completed"
    /\ \A v \in VolIds :
          (volumes[v].state # "none" /\ volumes[v].snap # NoId)
             => snapshots[volumes[v].snap].state = "completed"

\* job j created its volume after a lookup made while the snapshot of job k, which
\* carries j's cache key, was already requested and is still not completed
C6_Witness ==
    \E j, k \in Jobs :
       /\ j # k
       /\ loc[j].newVolume # NoId
       /\ snapshots[NewSnapId(k)].state \in {"pending", "error"}
       /\ KeyTags(cfg[j]) \subseteq snapshots[NewSnapId(k)].tags
       /\ loc[j].lookupAt >= snapshots[NewSnapId(k)].time
       /\ volumes[VolumeOf(j)].snap # NewSnapId(k)

\* the devices under which the attached volume can be mounted
VolumeDevices == {suggestedDeviceName, VolDev}

\* C7 (as claimed): when CreateSnapshot issues the EC2 snapshot request, the docker stop was
\* attempted, no mount point holds the volume, the detach was requested and the
\* volume is available; the request follows the stop, the umount and the detach.
C7_SnapshotAfterQuiesce ==
    \A j \in Jobs :
       /\ pc[j] = "c_snapshot"
            => /\ Events(j, "create", "docker_stop") # {}
               /\ Events(j, "create", "umount") # {}
               /\ \A m \in MountPoints : host[j].mounts[m] \notin VolumeDevices
               /\ EventsOn(j, "create", "DetachVolume", loc[j].volumeInfo.VolumeID) # {}
               /\ volumes[loc[j].volumeInfo.VolumeID].state = "available"
       /\ \A i \in Events(j, "create", "CreateSnapshot") :
             /\ \E a \in Events(j, "create", "docker_stop") : a < i
             /\ \E a \in Events(j, "create", "umount") : a < i
             /\ \E a \in EventsOn(j, "create", "DetachVolume", log[j][i].arg) : a < i

\* C8 (as claimed): a RestoreSnapshot whose health probe failed has run umount on
\* its mount point after the probe and returned an error.
C8_ProbeFailureUnmounts ==
    \A j \in Jobs :
       (Restored(j) /\ RestoreResult(j).err = "probe")
          => /\ ~RestoreResult(j).ok
             /\ \E d \in Events(j, "restore", "docker_system_df") :
                  \E u \in EventsOn(j, "restore", "umount", mountPoint(j)) : d < u

\* C9 (as claimed): after a successful RestoreSnapshot the VolumeInfo record of the
\* mount point holds the returned VolumeID and DeviceName.
C9_SuccessHasVolumeInfo ==
    \A j \in Jobs :
       (Restored(j) /\ RestoreResult(j).ok)
          => LET info == loadVolumeInfo(host[j].files, mountPoint(j))
             IN /\ info.VolumeID = RestoreResult(j).VolumeID
                /\ info.DeviceName = RestoreResult(j).DeviceName
                /\ info.MountPoint = mountPoint(j)

RestoreErrorsOfMountSequence ==
    {"mkfs", "mkdir", "mount", "docker_start", "probe"}

\* C10 (as claimed): the VolumeInfo record is written only after mount, service
\* start and health probe, and a RestoreSnapshot that failed at format, mkdir,
\* mount, service start or probe has written no record.
C10_VolumeInfoWrittenLast ==
    \A j \in Jobs :
       /\ \A i \in Events(j, "restore", "saveVolumeInfo") :
             /\ \E a \in Events(j, "restore", "mount") : a < i
             /\ \E a \in Events(j, "restore", "docker_start") : a < i
             /\ \E a \in Events(j, "restore", "docker_system_df") : a < i
       /\ (Restored(j) /\ RestoreResult(j).err \in RestoreErrorsOfMountSequence)
             => Events(j, "restore", "saveVolumeInfo") = {}

DefaultBranchSnapshotOf(j, k) ==
    /\ j # k
    /\ cfg[k].GithubRef = cfg[j].DefaultBranch
    /\ cfg[k].GithubRef # cfg[j].GithubRef
    /\ cfg[k].GithubRepository = cfg[j].GithubRepository
    /\ Finalized(k)
    /\ CreateResult(k).ok
    /\ snapshots[CreateResult(k).SnapshotID].state = "completed"

C13_AttachFailureDeletesOnce ==
    \A j \in Jobs :
       (Restored(j) /\ RestoreResult(j).err = "attach")
          => /\ ~RestoreResult(j).ok
             /\ RestoreResult(j).created # NoId
             /\ Cardinality(Events(j, "restore", "DeleteVolume")) = 1
             /\ \A d \in Events(j, "restore", "DeleteVolume") :
                   /\ log[j][d].arg = RestoreResult(j).created
                   /\ \E a \in EventsOn(j, "restore", "AttachVolume",
                                         RestoreResult(j).created) : a < d

\* AttachVolume failed and the created volume was deleted
C13_Witness ==
    \E j \in Jobs :
       /\ Restored(j)
       /\ RestoreResult(j).err = "attach"
       /\ volumes[RestoreResult(j).created].state = "deleted"

\* the completed snapshots of a key whose size is known and at least the minimum
AdequateWithKey(c, branchValue) ==
    {s \in CompletedWithKey(c, branchValue) :
        snapshots[s].size # NilSize /\ snapshots[s].size >= defaultVolumeSizeGiB}

\* the snapshot a volume would be cloned from after the lookup: the selected
\* snapshot if it passes the size test, none otherwise
SourceOf(l) == IF UseSnapshot(l.latestSnapshot) THEN l.latestSnapshot ELSE NoId

\* a latest snapshot of a non-empty set
IsLatestOf(x, S) == x \in S /\ \A s \in S : snapshots[s].time <= snapshots[x].time

\* C14 (as claimed): the source chosen by the lookup is the one it would choose
\* if the undersized matching snapshots were absent: a latest adequately sized
\* snapshot of the own key if there is one, else (default branch configured) the
\* fallback is consulted and gives a latest adequately sized snapshot of the
\* default-branch key if there is one, else none.
C14_UndersizedIgnored ==
    [][\A j \in Jobs :
          LET own == AdequateWithKey(cfg[j], OwnKey(cfg[j]))
              def == AdequateWithKey(cfg[j], FallbackKey(cfg[j]))
          IN /\ (pc[j] = "r_describe" /\ pc'[j] \notin {"r_describe", "r_return"})
                  => IF own # {}
                     THEN pc'[j] = "r_create" /\ IsLatestOf(SourceOf(loc'[j]), own)
                     ELSE IF cfg[j].DefaultBranch # ""
                     THEN pc'[j] = "r_describe_default"
                     ELSE pc'[j] = "r_create" /\ SourceOf(loc'[j]) = NoId
             /\ (pc[j] = "r_describe_default" /\ pc'[j] = "r_create")
                  => IF def # {}
                     THEN IsLatestOf(SourceOf(loc'[j]), def)
                     ELSE SourceOf(loc'[j]) = NoId]_vars

\* C15: when completed snapshots match the job's own key, the lookup selects one
\* of them with the greatest StartTime, the first listed of those with that
\* time, and goes on to create the volume without a default-branch lookup.
C15_OwnKeyLatest ==
    [][\A j \in Jobs :
          LET own == CompletedWithKey(cfg[j], OwnKey(cfg[j]))
          IN (/\ pc[j] = "r_describe"
              /\ pc'[j] \notin {"r_describe", "r_return"}
              /\ own # {})
                => /\ pc'[j] = "r_create"
                   /\ IsLatestOf(loc'[j].latestSnapshot, own)
                   /\ \A s \in own :
                         snapshots[s].time = snapshots[loc'[j].latestSnapshot].time
                            => loc'[j].latestSnapshot <= s
                   /\ Cardinality(Events(j, "restore", "DescribeSnapshots"))' = 1]_vars

\* the lookup selected the first listed of two own-key snapshots of equal time
C15_Witness ==
    \E j \in Jobs :
       /\ pc[j] = "r_create"
       /\ Cardinality(Events(j, "restore", "DescribeSnapshots")) = 1
       /\ \E a, b \in CompletedWithKey(cfg[j], OwnKey(cfg[j])) :
             /\ a < b
             /\ snapshots[a].time = snapshots[b].time
             /\ loc[j].latestSnapshot = a

\* C16 (as claimed): after the umount step of CreateSnapshot, a mount point that
\* is still mounted makes the call fail with the umount error and without a
\* detach request, and a mount point that is not mounted lets the call go on to
\* the detach, whether the umount command succeeded or failed.
C16_UmountFailureAndDf ==
    [][\A j \in Jobs :
          (pc[j] = "c_umount" /\ pc'[j] # "c_umount")
             => IF host'[j].mounts[mountPoint(j)] # ""
                THEN /\ pc'[j] = "done"
                     /\ ~CreateResult(j)'.ok
                     /\ CreateResult(j)'.err = "umount"
                ELSE pc'[j] = "c_detach"]_vars

\* the requests and commands that CreateSnapshot issued for job j
CreateEvents(j) == {i \in 1..Len(log[j]) : log[j][i].in = "create"}

\* C17: a CreateSnapshot that returned while the VolumeInfo file of its mount
\* point holds no record returned an error and issued no host command and no
\* EC2 request.
C17_NoVolumeInfoNoAction ==
    \A j \in Jobs :
       (Finalized(j) /\ host[j].files[getVolumeInfoPath(mountPoint(j))] = NoFile)
          => /\ ~CreateResult(j).ok
             /\ CreateResult(j).err = "load"
             /\ CreateEvents(j) = {}

\* CreateSnapshot returned without a record while the volume of a successful
\* RestoreSnapshot is attached and mounted
C17_Witness ==
    \E j \in Jobs :
       /\ Finalized(j)
       /\ host[j].files[getVolumeInfoPath(mountPoint(j))] = NoFile
       /\ RestoreResult(j).ok
       /\ volumes[RestoreResult(j).VolumeID].state = "attached"
       /\ host[j].mounts[mountPoint(j)] # ""

\* C18: with WaitForSnapshotCompletion the call goes from the accepted snapshot
\* request to the wait, the wait returns an error unless the snapshot is
\* completed, and a success is returned only with the new snapshot completed;
\* without it the call returns the id of the new snapshot in the step of the
\* accepted request, the snapshot being pending.
C18_WaitForCompletion ==
    [][\A j \in Jobs :
          LET wait == cfg[j].WaitForSnapshotCompletion
              s == NewSnapId(j)
          IN /\ (/\ pc[j] = "c_snapshot"
                 /\ pc'[j] # "c_snapshot"
                 /\ snapshots'[s].state # "none")
                   => /\ snapshots[s].state = "none"
                      /\ snapshots'[s].state = "pending"
                      /\ IF wait
                         THEN pc'[j] = "c_wait_completed"
                         ELSE /\ pc'[j] = "done"
                              /\ CreateResult(j)'.ok
                              /\ CreateResult(j)'.SnapshotID = s
             /\ (pc[j] = "c_wait_completed" /\ pc'[j] # "c_wait_completed")
                   => IF snapshots[s].state = "completed"
                      THEN pc'[j] = "c_delete"
                      ELSE /\ pc'[j] = "done"
                           /\ ~CreateResult(j)'.ok
                           /\ CreateResult(j)'.err = "wait_completed"
             /\ (pc[j] # "done" /\ pc'[j] = "done" /\ CreateResult(j)'.ok /\ wait)
                   => /\ CreateResult(j)'.SnapshotID = s
                      /\ snapshots'[s].state = "completed"]_vars

\* a waiting CreateSnapshot returned its completed snapshot, and one that does
\* not wait had returned the id of a snapshot that ended in error
C18_Witness ==
    \E j, k \in Jobs :
       /\ Finalized(j) /\ cfg[j].WaitForSnapshotCompletion
       /\ CreateResult(j).ok
       /\ snapshots[CreateResult(j).SnapshotID].state = "completed"
       /\ Finalized(k) /\ ~cfg[k].WaitForSnapshotCompletion
       /\ CreateResult(k).ok
       /\ snapshots[CreateResult(k).SnapshotID].state = "error"

\* RestoreSnapshot of job j ended at the DescribeVolumes re-query
EndedAtRequery(j) ==
    /\ Restored(j)
    /\ \E i \in Events(j, "restore", "DescribeVolumes") :
          \A k \in (i + 1)..Len(log[j]) : log[j][k].in # "restore"

\* C19 (as claimed): a RestoreSnapshot that ended at the re-query after the
\* attached wait (failed query, no volume, no attachment) returned an error, not
\* a crash, and ran neither mkfs nor mount.
C19_RequeryFailureIsError ==
    \A j \in Jobs :
       EndedAtRequery(j)
          => /\ ~RestoreResult(j).ok
             /\ RestoreResult(j).err = "requery"
             /\ Events(j, "restore", "mkfs") = {}
             /\ Events(j, "restore", "mount") = {}

\* C20 (as claimed): the device that RestoreSnapshot formats, mounts and records
\* in VolumeInfo is never the root device of the instance.
C20_NeverRootDevice ==
    \A j \in Jobs :
       /\ \A i \in Events(j, "restore", "mkfs") : log[j][i].arg # RootDev
       /\ \A i \in Events(j, "restore", "mount") : log[j][i].arg # RootDev
       /\ \A p \in InfoPaths : Unmarshal(host[j].files[p]).DeviceName # RootDev
       /\ \A m \in MountPoints : host[j].mounts[m] # RootDev

\* the volume that job j created, if any
Created(j) == IF Restored(j) THEN RestoreResult(j).created ELSE loc[j].newVolume

\* the EC2 requests whose argument is a volume
VolumeRequests == {"AttachVolume", "DescribeVolumes", "DetachVolume",
                   "CreateSnapshot", "DeleteVolume"}

\* C21: in every interleaving the volumes created by two jobs are distinct,
\* every attach, detach, snapshot and delete request of a job is for the volume
\* it created itself, a volume is attached to the instance of its creator only,
\* and no step changes or removes a completed snapshot.
C21_JobsAreIsolated ==
    [][/\ \A j, k \in Jobs :
            (j # k /\ Created(j)' # NoId) => Created(j)' # Created(k)'
       /\ \A j \in Jobs : \A i \in 1..Len(log'[j]) :
            log'[j][i].op \in VolumeRequests => log'[j][i].arg = Created(j)'
       /\ \A j \in Jobs :
            Created(j)' # NoId => volumes'[Created(j)'].instance \in {NoId, j}
       /\ \A s \in SnapIds :
            snapshots[s].state = "completed" => snapshots'[s] = snapshots[s]]_vars

\* two jobs with the same cache key cloned their volumes from the same snapshot
\* and both requested a snapshot of their own volume
C21_Witness ==
    \E j, k \in Jobs :
       /\ j # k
       /\ KeyTags(cfg[j]) = KeyTags(cfg[k])
       /\ volumes[VolumeOf(j)].snap # NoId
       /\ volumes[VolumeOf(j)].snap = volumes[VolumeOf(k)].snap
       /\ snapshots[NewSnapId(j)].vol = VolumeOf(j)
       /\ snapshots[NewSnapId(k)].vol = VolumeOf(k)

\* the positions at which a job waits, with the state each wait is for
WaitPositions == {"r_wait_available", "r_wait_attached", "c_wait_available",
                  "c_wait_completed"}

AwaitedStateReached(j) ==
    CASE pc[j] = "r_wait_available" -> volumes[loc[j].newVolume].state = "available"
      [] pc[j] = "r_wait_attached" -> volumes[loc[j].newVolume].state = "attached"
      [] pc[j] = "c_wait_available" ->
            volumes[loc[j].volumeInfo.VolumeID].state = "available"
      [] pc[j] = "c_wait_completed" ->
            snapshots[loc[j].newSnapshotID].state = "completed"
      [] OTHER -> TRUE

\* C22: a wait that ends without the awaited state ends the call with an error
\* (RestoreSnapshot goes to its return with an error, CreateSnapshot returns an
\* error), no EC2 request is issued a second time, and a job that keeps taking
\* steps returns from both calls even if EC2 never reaches an awaited state.
C22_WaitsAreBounded ==
    /\ [][\A j \in Jobs :
             (pc[j] \in WaitPositions /\ pc'[j] # pc[j] /\ ~AwaitedStateReached(j))
                => \/ pc'[j] = "r_return" /\ ~loc'[j].retOk
                   \/ pc'[j] = "done" /\ ~CreateResult(j)'.ok]_vars
    /\ [](\A j \in Jobs :
             \A op \in {"CreateVolume", "AttachVolume", "DetachVolume", "CreateSnapshot"} :
                Cardinality(Events(j, "restore", op) \cup Events(j, "create", op)) <= 1)
    /\ \A j \in Flaky : <>(pc[j] = "done")

\* a wait ended by its time-out: the call returned the error while the awaited
\* state was still not reached
C22_Witness ==
    \E j \in Jobs :
       /\ Restored(j)
       /\ RestoreResult(j).err = "wait_attached"
       /\ volumes[RestoreResult(j).created].state = "attaching"

\* a required field of the configuration is empty
MissingRequiredField(c) ==
    c.InstanceID = "" \/ c.Az = "" \/ c.GithubRepository = "" \/ c.GithubRef = ""

\* C23: a job whose instance id, availability zone, repository or ref is empty
\* gets no snapshotter in either phase: it never enters RestoreSnapshot or
\* CreateSnapshot and issues no EC2 request and no host command; a job with
\* all four fields runs the restore with the version defaulted to v1.
C23_ConfigErrorsFailFast ==
    \A j \in Jobs :
       /\ MissingRequiredField(cfg[j])
             => /\ pc[j] \in {"off", "m_new", "p_new", "done"}
                /\ log[j] = <<>>
                /\ res[j] = <<>>
                /\ host[j] = InitHost
       /\ (~MissingRequiredField(cfg[j]) /\ pc[j] \notin {"off", "m_new"})
             => /\ cfg[j].Version = "v1"
                /\ pc[j] \in {"p_new", "c_load", "done"} => Restored(j)

\* both phases of a job without repository identifier are over
C23_Witness ==
    \E j \in Jobs :
       /\ cfg[j].GithubRepository = ""
       /\ cfg[j].InstanceID # "" /\ cfg[j].Az # "" /\ cfg[j].GithubRef # ""
       /\ pc[j] = "done"

\* the position of the last saveVolumeInfo call in the log of job j, 0 if none
LastSave(j) ==
    LET saves == Events(j, "record", "saveVolumeInfo")
    IN IF saves = {} THEN 0 ELSE CHOOSE i \in saves : \A k \in saves : k <= i

\* C24: a loadVolumeInfo for the mount point of the record that the last
\* saveVolumeInfo wrote returns a record with the same VolumeID, DeviceName and
\* MountPoint.
C24_VolumeInfoRoundTrip ==
    \A j \in Jobs :
       (/\ log[j] # <<>>
        /\ Last(log[j]).op = "loadVolumeInfo"
        /\ LastSave(j) # 0
        /\ log[j][LastSave(j)].arg.MountPoint = Last(log[j]).arg)
          => /\ loc[j].volumeInfo.VolumeID = log[j][LastSave(j)].arg.VolumeID
             /\ loc[j].volumeInfo.DeviceName = log[j][LastSave(j)].arg.DeviceName
             /\ loc[j].volumeInfo.MountPoint = log[j][LastSave(j)].arg.MountPoint

\* a record was saved for a mount point, overwritten by a second one, and the
\* second one was loaded
C24_Witness ==
    \E j \in Jobs :
       /\ Len(log[j]) = 3
       /\ log[j][1].op = "saveVolumeInfo"
       /\ log[j][2].op = "saveVolumeInfo"
       /\ log[j][3].op = "loadVolumeInfo"
       /\ log[j][1].arg # log[j][2].arg
       /\ log[j][2].arg.MountPoint = DockerDir
       /\ log[j][3].arg = DockerDir
       /\ loc[j].volumeInfo = log[j][2].arg

\* the place of a host command of RestoreSnapshot in the mount sequence (0: not a
\* step of it); an umount right after the health probe is the one of its failure
StepRank(j, i) ==
    LET e == log[j][i]
    IN IF e.in # "restore" THEN 0
       ELSE CASE e.op = "docker_stop" -> 1
              [] e.op = "umount" ->
                    IF i > 1 /\ log[j][i - 1].op = "docker_system_df" THEN 8 ELSE 2
              [] e.op = "mkfs" -> 3
              [] e.op = "mkdir" -> 4
              [] e.op = "mount" -> 5
              [] e.op = "docker_start" -> 6
              [] e.op = "docker_system_df" -> 7
              [] OTHER -> 0

\* C25: the host commands of a RestoreSnapshot are issued in the order stop,
\* defensive umount, mkfs (blank volume only), mkdir, mount, start, probe, each at
\* most once; the stop and the defensive umount are always followed by the next
\* step, a failed mount or start ends the call with an error, and no start
\* follows a failed mount.
C25_MountSequenceOrder ==
    [][\A j \in Jobs :
          /\ \A b \in (Len(log[j]) + 1)..Len(log'[j]) :
                StepRank(j, b)' # 0
                   => \A a \in 1..(b - 1) : StepRank(j, a)' < StepRank(j, b)'
          /\ Events(j, "restore", "mkfs")' # {}
                => volumes'[VolumeOf(j)].snap = NoId
          /\ pc[j] = "r_stop_docker" => pc'[j] \in {"r_stop_docker", "r_umount"}
          /\ pc[j] = "r_umount" => pc'[j] \in {"r_umount", "r_lsblk"}
          /\ (pc[j] = "r_mount" /\ pc'[j] # "r_mount")
                => IF host'[j].mounts[mountPoint(j)] = ""
                   THEN pc'[j] = "r_return" /\ ~loc'[j].retOk
                   ELSE pc'[j] = "r_start_docker"
          /\ (pc[j] = "r_start_docker" /\ pc'[j] # "r_start_docker")
                => \/ pc'[j] = "r_probe" /\ host'[j].docker = "running"
                   \/ pc'[j] = "r_return" /\ ~loc'[j].retOk
          /\ (Restored(j)' /\ RestoreResult(j)'.err = "mount")
                => Events(j, "restore", "docker_start")' = {}]_vars

\* a RestoreSnapshot of a blank volume succeeded although its docker stop and
\* its defensive umount (nothing was mounted) failed
C25_Witness ==
    \E j \in Jobs :
       /\ Restored(j) /\ RestoreResult(j).ok
       /\ Events(j, "restore", "mkfs") # {}
       /\ Events(j, "restore", "docker_system_df") # {}
       /\ \E d \in Events(j, "restore", "docker_stop") :
             \E m \in Events(j, "restore", "mount") : d < m
       /\ j \in Flaky

\* C26 (as claimed): a RestoreSnapshot that returned success issued no
\* DeleteVolume request for the volume it provisioned, whichever of its
\* non-fatal steps failed on the way.
C26_SuccessNeverDeletes ==
    \A j \in Jobs :
       (Restored(j) /\ RestoreResult(j).ok)
          => EventsOn(j, "restore", "DeleteVolume", RestoreResult(j).created) = {}

RestoreErrorsAfterSave == {"mkfs", "mount", "docker_start", "probe"}

\* C27 (as claimed): after a RestoreSnapshot that failed at the format, the
\* mount, the service start or the health probe, no snapshot of the volume of
\* that restore exists, and no volume is a clone of an unformatted snapshot.
C27_SnapshotOnlyAfterRestore ==
    /\ \A j \in Jobs :
          (/\ Restored(j)
           /\ ~RestoreResult(j).ok
           /\ RestoreResult(j).err \in RestoreErrorsAfterSave)
          => \A s \in SnapIds :
                snapshots[s].state # "none"
                   => snapshots[s].vol # RestoreResult(j).created
    /\ \A v \in VolIds :
          (volumes[v].state # "none" /\ volumes[v].snap # NoId)
             => snapshots[volumes[v].snap].formatted

\* C28 (as claimed): a RestoreSnapshot that returns after its systemctl stop
\* docker, with the service stopped, has run systemctl start docker after the
\* stop.
C28_DockerRestartedBeforeReturn ==
    [][\A j \in Jobs :
          (/\ pc[j] = "r_return"
           /\ pc'[j] # "r_return"
           /\ Events(j, "restore", "docker_stop") # {}
           /\ host[j].docker = "stopped")
          => \E a \in Events(j, "restore", "docker_stop") :
                \E b \in Events(j, "restore", "docker_start") : a < b]_vars

\* a mount point without its leading and trailing slashes
RECURSIVE WithoutOuterSlashes(_)
WithoutOuterSlashes(mp) ==
    IF mp # <<>> /\ Head(mp) = "/" THEN WithoutOuterSlashes(Tail(mp))
    ELSE IF mp # <<>> /\ Last(mp) = "/"
         THEN WithoutOuterSlashes(SubSeq(mp, 1, Len(mp) - 1))
         ELSE mp

\* C29 (as claimed): a saveVolumeInfo of a record for mount point A leaves the
\* result of loadVolumeInfo unchanged for every mount point that differs from A
\* by more than leading and trailing slashes, and a loadVolumeInfo for mount
\* point m that finds a record returns one whose mount point is m up to such
\* slashes.
C29_RecordsAreSeparate ==
    [][\A j \in Jobs :
          Len(log'[j]) > Len(log[j]) =>
             LET e == Last(log'[j])
             IN /\ e.op = "saveVolumeInfo" =>
                     \A m \in RecordMountPoints :
                        WithoutOuterSlashes(m) # WithoutOuterSlashes(e.arg.MountPoint)
                           => loadVolumeInfo(host'[j].files, m)
                                 = loadVolumeInfo(host[j].files, m)
                /\ (e.op = "loadVolumeInfo" /\ loc'[j].volumeInfo # NoInfo) =>
                     WithoutOuterSlashes(loc'[j].volumeInfo.MountPoint)
                        = WithoutOuterSlashes(e.arg)]_vars

\* the cache key of job j as tags: own branch value, repository, custom tags
OwnKeyTags(j) ==
    {<<snapshotBranchTagKey, <<cfg[j].Version, "-", cfg[j].GithubRef>>>>,
     <<snapshotRepositoryTagKey, cfg[j].GithubRepository>>} \cup cfg[j].CustomTags

\* the branch tag of the default-branch key of a job on another branch
DefaultKeyTag(j) ==
    <<snapshotBranchTagKey, <<cfg[j].Version, "-", cfg[j].DefaultBranch>>>>

====
